---- MODULE Spec2Model ----
(***************************************************************************)
(* Model of app.py: the Google-Sheets loader load_data (memoized by        *)
(* st.cache_data with a 10 minute ttl), the lookup get_blueprint_details   *)
(* and the Streamlit script blueprint_app.                                 *)
(*                                                                         *)
(* A string is a sequence of one-character strings.  A DataFrame is a      *)
(* record [columns, rows]; a row is [idx, cells] where idx is the pandas   *)
(* index label of the row and cells has one cell per column.  A cell is a  *)
(* string or NaN (the missing value of pandas).                            *)
(***************************************************************************)
EXTENDS Integers, Sequences, FiniteSets

VARIABLES
    now,                  \* wall clock, in minutes
    cache,                \* the st.cache_data entry of load_data: [at, value]
    lastFetch,            \* history: the latest remote read [at, failed, value]
    lastCall,             \* history: the latest load_data call [hit, waited]
    pc,                   \* position of the running blueprint_app script
    df,                   \* blueprint_app / get_blueprint_details: the dataset
    blueprint_selection,  \* blueprint_app: the value of the select box
    display,              \* what the interaction put on the display surface
    loaded,               \* lookup runs: the dataset as load_data returned it
    blueprint_name,       \* lookup runs: the query of the latest lookup
    matching_rows,        \* lookup runs: the value the latest lookup returned
    op                    \* lookup runs: "init" or "find"

vars == <<now, cache, lastFetch, lastCall, pc, df, blueprint_selection, display,
          loaded, blueprint_name, matching_rows, op>>

appVars == <<now, cache, lastFetch, lastCall, pc, blueprint_selection, display>>
findVars == <<loaded, blueprint_name, matching_rows, op>>

----------------------------------------------------------------------------
(* Bounds of the model *)

MaxRows == 2       \* rows of a remote table
MaxLen == 2        \* length of a query
MaxTime == 12      \* the clock stops here

(* ttl="10m" of @st.cache_data, in minutes *)
TTL == 10

Never == -1

----------------------------------------------------------------------------
(* Strings *)

LowerLetters == <<"a","b","c","d","e","f","g","h","i","j","k","l","m",
                  "n","o","p","q","r","s","t","u","v","w","x","y","z">>
UpperLetters == <<"A","B","C","D","E","F","G","H","I","J","K","L","M",
                  "N","O","P","Q","R","S","T","U","V","W","X","Y","Z">>

Range(f) == {f[i] : i \in DOMAIN f}
Alphabet == Range(LowerLetters) \cup Range(UpperLetters) \cup {" ", "_"}

IsUpper(c) == \E i \in 1..26 : UpperLetters[i] = c
IsLower(c) == \E i \in 1..26 : LowerLetters[i] = c

(* per character: is it a letter, its lowercase, its uppercase *)
IsLetter == [c \in Alphabet |-> IsUpper(c) \/ IsLower(c)]
LowerChar == [c \in Alphabet |->
    IF IsUpper(c) THEN LowerLetters[CHOOSE i \in 1..26 : UpperLetters[i] = c] ELSE c]
UpperChar == [c \in Alphabet |->
    IF IsLower(c) THEN UpperLetters[CHOOSE i \in 1..26 : LowerLetters[i] = c] ELSE c]

(* str.lower() and str.upper() (lower_identity: a comparison that forgot
   to lowercase) *)
lower_identity(s) == s
lower(s) == [i \in 1..Len(s) |-> LowerChar[s[i]]]
upper(s) == [i \in 1..Len(s) |-> UpperChar[s[i]]]

(* str.replace('_', ' ') *)
replace_underscore(s) == [i \in 1..Len(s) |-> IF s[i] = "_" THEN " " ELSE s[i]]

(* str.title(): a letter that follows a non-letter is uppercased, every other
   letter is lowercased *)
title(s) ==
    [i \in 1..Len(s) |->
        IF i = 1 \/ ~IsLetter[s[i-1]] THEN UpperChar[s[i]] ELSE LowerChar[s[i]]]

(* str.strip() for the space character; the program never calls it *)
RECURSIVE lstrip(_)
lstrip(s) == IF s # <<>> /\ Head(s) = " " THEN lstrip(Tail(s)) ELSE s
RECURSIVE rstrip(_)
rstrip(s) ==
    IF s # <<>> /\ s[Len(s)] = " " THEN rstrip(SubSeq(s, 1, Len(s) - 1)) ELSE s
strip(s) == rstrip(lstrip(s))

BLUEPRINT == <<"B","L","U","E","P","R","I","N","T">>

(* pandas' missing value; no string, since every string is made of
   one-character strings *)
NaN == <<"NaN">>

----------------------------------------------------------------------------
(* DataFrames *)

(* pd.DataFrame() *)
EmptyDataFrame == [columns |-> <<>>, rows |-> <<>>]

(* DataFrame.empty: some axis has length 0 *)
IsEmpty(d) == Len(d.columns) = 0 \/ Len(d.rows) = 0

(* 'BLUEPRINT' in df.columns *)
HasBlueprint(d) == \E j \in 1..Len(d.columns) : d.columns[j] = BLUEPRINT

(* the position of the column df['BLUEPRINT'] *)
KeyPos(d) == CHOOSE j \in 1..Len(d.columns) : d.columns[j] = BLUEPRINT

(* the cell of row r in the column df['BLUEPRINT'] *)
Key(d, r) == r.cells[KeyPos(d)]

----------------------------------------------------------------------------
(* The remote source: what conn.read(worksheet=SHEET_WORKSHEET_NAME) does.
   err = "none": it returns the table (columns, rows); any other err: it
   raises, possibly after part of the table was read. *)

hItem == <<"I","t","e","m">>
hMapArea == <<"M","a","p","_","a","r","e","a">>

HeaderChoices == { <<>>, <<hItem>>, <<hItem, hMapArea>> }

OtherCells == {NaN, <<"x">>}

RECURSIVE Strings(_, _)
Strings(alphabet, n) ==
    IF n = 0 THEN {<<>>}
    ELSE LET shorter == Strings(alphabet, n - 1)
         IN  shorter \cup {Append(s, c) : s \in {t \in shorter : Len(t) = n - 1},
                                          c \in alphabet}

(* the rows of a table of ncols columns whose first cell is in keyCells *)
RawRow(ncols, keyCells) ==
    IF ncols = 0 THEN {<<>>}
    ELSE IF ncols = 1 THEN {<<k>> : k \in keyCells}
    ELSE {<<k, o>> : k \in keyCells, o \in OtherCells}

RawRows(ncols, keyCells) ==
    UNION {[1..n -> RawRow(ncols, keyCells)] : n \in 0..MaxRows}

Tables(keyCells) ==
    UNION {{[err |-> "none", columns |-> h, rows |-> rs] :
                rs \in RawRows(Len(h), keyCells)} : h \in HeaderChoices}

Failures == {"connect", "auth", "malformed"}

(* a failed read; a malformed response fails after some of it was parsed *)
FailedReads ==
    {[err |-> e, columns |-> <<>>, rows |-> <<>>] : e \in Failures}
    \cup {[err |-> "malformed", columns |-> <<hItem>>, rows |-> <<<<k>>>>] :
             k \in {<<"a">>}}

LoaderKeyCells == {NaN, <<>>, <<"a">>}

Responses == Tables(LoaderKeyCells) \cup FailedReads

(* the read raised, or returned nothing at all (no header row) *)
Failed(resp) == resp.err # "none" \/ Len(resp.columns) = 0

----------------------------------------------------------------------------
(* load_data *)

(* conn.read's DataFrame: a RangeIndex 0..n-1 over the rows *)
ReadFrame(resp) ==
    [columns |-> resp.columns,
     rows |-> [i \in 1..Len(resp.rows) |-> [idx |-> i - 1, cells |-> resp.rows[i]]]]

(* df.columns = [col.upper() for col in df.columns] *)
UpperColumns(d) ==
    [d EXCEPT !.columns = [j \in 1..Len(d.columns) |-> upper(d.columns[j])]]

(* df.rename(columns={df.columns[0]: 'BLUEPRINT'}, inplace=True): every column
   carrying the first column's label is renamed; the guard of line 24 is
   always true *)
RenameFirst(d) ==
    [d EXCEPT !.columns = [j \in 1..Len(d.columns) |->
        IF d.columns[j] = d.columns[1] THEN BLUEPRINT ELSE d.columns[j]]]

(* df.dropna(subset=['BLUEPRINT'], inplace=True): rows whose BLUEPRINT cell is
   NaN are dropped; the index labels of the others are kept *)
dropna(d) ==
    LET keep(r) == \A j \in 1..Len(d.columns) :
                       d.columns[j] = BLUEPRINT => r.cells[j] # NaN
    IN  [d EXCEPT !.rows = SelectSeq(d.rows, keep)]

(* the body of load_data on the remote's response: raised tells whether an
   exception left the function, value is what it returned.  Two faulty
   variants come first: one without the try/except, one whose handler keeps
   what was read before the failure. *)
load_data_no_except(resp) ==
    IF resp.err # "none" \/ Len(resp.columns) = 0
    THEN [raised |-> TRUE, value |-> EmptyDataFrame]
    ELSE [raised |-> FALSE,
          value |-> dropna(RenameFirst(UpperColumns(ReadFrame(resp))))]
load_data_partial(resp) ==
    IF Len(resp.columns) = 0
    THEN [raised |-> FALSE, value |-> EmptyDataFrame]
    ELSE [raised |-> FALSE,
          value |-> dropna(RenameFirst(UpperColumns(ReadFrame(resp))))]
load_data(resp) ==
    IF resp.err # "none"
    THEN [raised |-> FALSE, value |-> EmptyDataFrame]       \* lines 31-33
    ELSE IF Len(resp.columns) = 0
    THEN [raised |-> FALSE, value |-> EmptyDataFrame]       \* IndexError, line 24
    ELSE [raised |-> FALSE,
          value |-> dropna(RenameFirst(UpperColumns(ReadFrame(resp))))]

(* @st.cache_data(ttl="10m"): the entry stored at cache.at serves the calls
   made less than TTL after it (cache_never_expires: a cache without ttl) *)
cache_never_expires(c, t) == c.at # Never
cache_hit(c, t) == c.at # Never /\ t - c.at < TTL

NoEntry == [at |-> Never, value |-> EmptyDataFrame]

(* history variables: lastFetch is the latest read of the remote (when, whether
   it failed, what load_data made of it); lastCall tells of the latest call of
   load_data whether the cache served it and whether it came at a later minute
   than the latest read *)
NoFetch == [at |-> Never, failed |-> FALSE, value |-> EmptyDataFrame]
NoCall == [hit |-> FALSE, waited |-> FALSE]
Waited == lastFetch.at # Never /\ now > lastFetch.at

----------------------------------------------------------------------------
(* get_blueprint_details: ret is the returned DataFrame, df is the argument
   df as the call leaves it *)

(* matching_rows.columns = [col.replace('_', ' ').title() for col in ...] *)
DisplayColumns(d) ==
    [d EXCEPT !.columns =
        [j \in 1..Len(d.columns) |-> title(replace_underscore(d.columns[j]))]]

(* df[df['BLUEPRINT'].str.lower() == blueprint_name.lower()]: .str.lower()
   leaves NaN as NaN, and NaN == s is False *)
MatchingRows(name, d) ==
    LET hit(r) == Key(d, r) # NaN /\ lower(Key(d, r)) = lower(name)
    IN  [d EXCEPT !.rows = SelectSeq(d.rows, hit)]

(* faulty variants: only the first match is returned; the column guard is
   missing; the display names are written to df itself *)
get_blueprint_details_first(name, d) ==
    IF ~HasBlueprint(d) THEN [ret |-> EmptyDataFrame, df |-> d]
    ELSE LET m == MatchingRows(name, d)
         IN  [ret |-> DisplayColumns([m EXCEPT !.rows =
                         IF m.rows = <<>> THEN <<>> ELSE <<Head(m.rows)>>]),
              df |-> d]
get_blueprint_details_no_guard(name, d) ==
    IF ~HasBlueprint(d) THEN [ret |-> DisplayColumns(d), df |-> d]
    ELSE [ret |-> DisplayColumns(MatchingRows(name, d)), df |-> d]
get_blueprint_details_in_place(name, d) ==
    IF ~HasBlueprint(d) THEN [ret |-> EmptyDataFrame, df |-> d]
    ELSE [ret |-> DisplayColumns(MatchingRows(name, d)), df |-> DisplayColumns(d)]
get_blueprint_details(name, d) ==
    IF ~HasBlueprint(d) THEN [ret |-> EmptyDataFrame, df |-> d]      \* lines 38-39
    ELSE [ret |-> DisplayColumns(MatchingRows(name, d)), df |-> d]  \* .copy()

----------------------------------------------------------------------------
(* blueprint_app on the cached loader: specification Spec *)

(* [''] + sorted(df['BLUEPRINT'].unique().tolist()), as the set the select
   box offers *)
Options(d) == {<<>>} \cup {Key(d, d.rows[i]) : i \in 1..Len(d.rows)}

Init ==
    /\ now = 0
    /\ cache = NoEntry
    /\ lastFetch = NoFetch
    /\ lastCall = NoCall
    /\ pc = "start"
    /\ df = EmptyDataFrame
    /\ blueprint_selection = <<>>
    /\ display = "none"
    /\ loaded = EmptyDataFrame
    /\ blueprint_name = <<>>
    /\ matching_rows = EmptyDataFrame
    /\ op = "init"

(* a minute passes *)
Tick ==
    /\ now < MaxTime
    /\ now' = now + 1
    /\ UNCHANGED <<cache, lastFetch, lastCall, pc, df, blueprint_selection, display>>
    /\ UNCHANGED findVars

(* line 56, df = load_data(), served from the cache *)
LoadCached ==
    /\ pc = "start"
    /\ cache_hit(cache, now)
    /\ df' = cache.value
    /\ lastCall' = [hit |-> TRUE, waited |-> Waited]
    /\ pc' = "loaded"
    /\ UNCHANGED <<now, cache, lastFetch, blueprint_selection, display>>
    /\ UNCHANGED findVars

(* line 56, df = load_data(), the body runs: the remote is read and what the
   body returns is stored; an exception leaving the body would store nothing
   and end the script run *)
LoadFetch ==
    /\ pc = "start"
    /\ ~cache_hit(cache, now)
    /\ \E resp \in Responses :
       \E r \in {load_data(resp)} :
              /\ lastFetch' = [at |-> now, failed |-> Failed(resp), value |-> r.value]
              /\ lastCall' = [hit |-> FALSE, waited |-> Waited]
              /\ cache' = IF r.raised THEN cache ELSE [at |-> now, value |-> r.value]
              /\ df' = IF r.raised THEN df ELSE r.value
              /\ pc' = IF r.raised THEN "done" ELSE "loaded"
              /\ display' = IF r.raised THEN "exception" ELSE display
    /\ UNCHANGED <<now, blueprint_selection>>
    /\ UNCHANGED findVars

(* lines 58-60: st.error(...); return *)
ShowLoadError ==
    /\ pc = "loaded"
    /\ IsEmpty(df)
    /\ display' = "load_error"
    /\ pc' = "done"
    /\ UNCHANGED <<now, cache, lastFetch, lastCall, df, blueprint_selection>>
    /\ UNCHANGED findVars

(* lines 64-75: the select box over the blueprint names *)
SelectBlueprint ==
    /\ pc = "loaded"
    /\ ~IsEmpty(df)
    /\ \E sel \in Options(df) : blueprint_selection' = sel
    /\ pc' = "selected"
    /\ UNCHANGED <<now, cache, lastFetch, lastCall, df, display>>
    /\ UNCHANGED findVars

(* line 79: filtered_options is bound nowhere, so `if filtered_options:`
   raises NameError; the script run ends with the uncaught exception and
   lines 80-169 never run *)
FilteredSelect ==
    /\ pc = "selected"
    /\ display' = "exception"
    /\ pc' = "done"
    /\ UNCHANGED <<now, cache, lastFetch, lastCall, df, blueprint_selection>>
    /\ UNCHANGED findVars

(* the next interaction: Streamlit runs the script again from the top *)
Rerun ==
    /\ pc = "done"
    /\ pc' = "start"
    /\ df' = EmptyDataFrame
    /\ blueprint_selection' = <<>>
    /\ display' = "none"
    /\ UNCHANGED <<now, cache, lastFetch, lastCall>>
    /\ UNCHANGED findVars

Next ==
    \/ Tick
    \/ LoadCached
    \/ LoadFetch
    \/ ShowLoadError
    \/ SelectBlueprint
    \/ FilteredSelect
    \/ Rerun

Spec == Init /\ [][Next]_vars

----------------------------------------------------------------------------
(* get_blueprint_details on the datasets load_data produces and on datasets
   without the BLUEPRINT column: specification FindSpec *)

QueryAlphabet == {"a", "A", " "}

(* the key cells of the looked-up datasets: keys equal up to case, a key of
   two letters, the empty key that dropna keeps *)
FindKeyCells == {<<>>, <<"a">>, <<"A">>, <<"a", "A">>}
Queries == Strings(QueryAlphabet, MaxLen)

(* what load_data returns for the tables of the remote *)
LoadedDatasets == {load_data(resp).value : resp \in Tables(FindKeyCells)}

(* tables whose first column was not renamed: no BLUEPRINT column *)
UnkeyedDatasets ==
    {UpperColumns(ReadFrame(resp)) : resp \in Tables({<<"a">>})}

InitFind ==
    /\ df \in LoadedDatasets \cup UnkeyedDatasets
    /\ loaded = df
    /\ blueprint_name = <<>>
    /\ matching_rows = EmptyDataFrame
    /\ op = "init"
    /\ now = 0
    /\ cache = NoEntry
    /\ lastFetch = NoFetch
    /\ lastCall = NoCall
    /\ pc = "start"
    /\ blueprint_selection = <<>>
    /\ display = "none"

(* details_df = get_blueprint_details(query, df) *)
Find ==
    /\ \E query \in Queries :
       \E r \in {get_blueprint_details(query, df)} :
              /\ blueprint_name' = query
              /\ matching_rows' = r.ret
              /\ df' = r.df
    /\ op' = "find"
    /\ UNCHANGED loaded
    /\ UNCHANGED appVars

NextFind == Find

FindSpec == InitFind /\ [][NextFind]_vars

----------------------------------------------------------------------------
(* Properties *)

(* a and b are strings that differ at most in letter case *)
SameUpToCase(a, b) ==
    /\ a # NaN
    /\ b # NaN
    /\ Len(a) = Len(b)
    /\ \A i \in 1..Len(a) : LowerChar[a[i]] = LowerChar[b[i]]

(* the step of blueprint_app that calls load_data *)
CallStep == pc = "start" /\ pc' # "start"

(* the cache window of the latest remote read is still open *)
InWindow == lastFetch.at # Never /\ now - lastFetch.at < TTL

(* C1: every record of a Dataset that load_data returned without error has a
   non-empty BLUEPRINT cell, whatever table the remote returned (cells
   missing, cells empty) *)
C1_KeyNonEmpty ==
    (lastFetch.at # Never /\ ~lastFetch.failed) =>
        \A i \in 1..Len(lastFetch.value.rows) :
            Key(lastFetch.value, lastFetch.value.rows[i]) \notin {NaN, <<>>}

(* C2: on a dataset with the BLUEPRINT column the lookup returns exactly the
   records whose key equals the query up to letter case, each once and in the
   order of the dataset; none matching gives an empty sequence *)
C2_ExactMatchesInOrder ==
    (op = "find" /\ HasBlueprint(loaded)) =>
        LET matches(r) == SameUpToCase(Key(loaded, r), blueprint_name)
        IN  matching_rows.rows = SelectSeq(loaded.rows, matches)

(* two records sharing the key, differing elsewhere, both returned in order *)
C2_Witness ==
    /\ op = "find"
    /\ HasBlueprint(loaded)
    /\ Len(matching_rows.rows) = 2
    /\ matching_rows.rows[1].idx < matching_rows.rows[2].idx
    /\ matching_rows.rows[1].cells # matching_rows.rows[2].cells
    /\ Key(loaded, matching_rows.rows[1]) = Key(loaded, matching_rows.rows[2])

(* C3, as claimed: on a dataset without the BLUEPRINT column the lookup does
   not return an empty result *)
C3_SchemaErrorReported ==
    (op = "find" /\ ~HasBlueprint(loaded)) => ~IsEmpty(matching_rows)

(* C3, amended: on a dataset without the BLUEPRINT column the lookup returns
   the empty DataFrame, with no rows and no columns; the result of a query
   matching no record is empty too and keeps the columns *)
C3_MissingColumnReturnsEmpty ==
    op = "find" =>
        /\ ~HasBlueprint(loaded) => matching_rows = EmptyDataFrame
        /\ (HasBlueprint(loaded) /\ matching_rows.rows = <<>>) =>
               (IsEmpty(matching_rows) /\ matching_rows.columns # <<>>)

(* a lookup on a dataset that has rows and no BLUEPRINT column *)
C3_Witness ==
    /\ op = "find"
    /\ ~HasBlueprint(loaded)
    /\ ~IsEmpty(loaded)
    /\ matching_rows = EmptyDataFrame

(* C4: a load_data call made less than TTL after the latest remote read reads
   nothing and returns what that read produced; a call made TTL or more after
   it (or before any read) reads the remote *)
C4_Memoized ==
    [][CallStep =>
        IF InWindow
        THEN lastCall'.hit /\ lastFetch' = lastFetch /\ df' = lastFetch.value
        ELSE ~lastCall'.hit /\ lastFetch'.at = now]_vars

(* a call served from the cache minutes after a successful read *)
C4_Witness ==
    /\ lastCall.hit
    /\ lastCall.waited
    /\ ~lastFetch.failed
    /\ ~IsEmpty(lastFetch.value)

(* C5: when the remote read fails, load_data returns the recordless empty
   result, and blueprint_app, given an empty result, shows the load error
   and ends there *)
C5_LoadErrorTerminal ==
    [][/\ (CallStep /\ lastFetch'.failed) =>
              (pc' = "loaded" /\ df' = EmptyDataFrame)
       /\ (pc = "loaded" /\ IsEmpty(df) /\ pc' # pc) =>
              /\ pc' = "done"
              /\ display' = "load_error"
              /\ blueprint_selection' = blueprint_selection]_vars

(* an interaction that ended on the load error after a failed read *)
C5_Witness ==
    /\ pc = "done"
    /\ display = "load_error"
    /\ lastFetch.failed
    /\ ~lastCall.hit

(* C6: an interaction ends on the load error when the dataset is unusable and,
   when a blueprint was chosen from a usable dataset, on the outcome of the
   lookup (the matching records, or the not-found error) *)
C6_ErrorOrRecords ==
    pc = "done" =>
        /\ IsEmpty(df) => display = "load_error"
        /\ (~IsEmpty(df) /\ blueprint_selection # <<>>) =>
               display \in {"records", "not_found"}

(* C7: on a dataset whose keys are all non-empty, the lookup of a query
   returns what the lookup of the stripped query returns *)
C7_QueryStripped ==
    (/\ op = "find"
     /\ HasBlueprint(loaded)
     /\ \A i \in 1..Len(loaded.rows) : Key(loaded, loaded.rows[i]) # <<>>) =>
        matching_rows = get_blueprint_details(strip(blueprint_name), loaded).ret

(* C8: queries that differ only in letter case get the same result, and a
   record whose stored key differs from the query only in letter case is in
   the result *)
C8_CaseInsensitive ==
    (op = "find" /\ HasBlueprint(loaded)) =>
        /\ \A other \in Queries :
               SameUpToCase(other, blueprint_name) =>
                   get_blueprint_details(other, loaded).ret = matching_rows
        /\ \A i \in 1..Len(loaded.rows) :
               SameUpToCase(Key(loaded, loaded.rows[i]), blueprint_name) =>
                   \E j \in 1..Len(matching_rows.rows) :
                       matching_rows.rows[j] = loaded.rows[i]

(* a record returned for a query spelled in another case than its key *)
C8_Witness ==
    /\ op = "find"
    /\ HasBlueprint(loaded)
    /\ \E j \in 1..Len(matching_rows.rows) :
           Key(loaded, matching_rows.rows[j]) # blueprint_name

(* C9: after a failed remote read, a load_data call inside the cache window
   reads nothing and returns the same empty result; a call made after the
   window reads the remote again *)
C9_NoRetryInWindow ==
    [][(CallStep /\ lastFetch.at # Never /\ lastFetch.failed) =>
        IF InWindow
        THEN /\ lastCall'.hit
             /\ lastFetch' = lastFetch
             /\ df' = EmptyDataFrame
        ELSE ~lastCall'.hit /\ lastFetch'.at = now]_vars

(* a call served the cached failure minutes after the failed read *)
C9_Witness ==
    /\ lastCall.hit
    /\ lastCall.waited
    /\ lastFetch.failed
    /\ pc = "loaded"
    /\ df = EmptyDataFrame

(* C10: lookups leave the dataset as load_data returned it (records, order,
   uppercased column names); the display names are on the result only *)
C10_DatasetUntouched ==
    op = "find" =>
        /\ df = loaded
        /\ HasBlueprint(loaded) =>
              /\ matching_rows.columns = DisplayColumns(loaded).columns
              /\ \A j \in 1..Len(df.columns) : df.columns[j] = upper(df.columns[j])

(* a lookup that returned records under display names *)
C10_Witness ==
    /\ op = "find"
    /\ matching_rows.rows # <<>>
    /\ matching_rows.columns # df.columns
    /\ df = loaded

====
